---- MODULE Spec2Model ----
(***************************************************************************)
(* SDKPluginManager of echo-core (src/echo/plugins/sdk_manager.py).        *)
(*                                                                         *)
(* The manager keeps two dictionaries keyed by plugin name                 *)
(* (plugin_bundles, plugin_contracts) and two sets of names                *)
(* (healthy_plugins, failed_plugins).  Plugins are external code: what a   *)
(* package import, a construction phase or a health_check() does is drawn  *)
(* nondeterministically.  A discovery pass is modelled statement by        *)
(* statement: the package loading loop, the call of discover_plugins(),    *)
(* one step per iteration of the construction loop, and (for a reload)     *)
(* the health sweep.  pc is the position inside the running operation.     *)
(*                                                                         *)
(* Taken from the SDK and not modelled further: contract.name is the name  *)
(* the metadata declares and reading it does not raise; the description    *)
(* put into a generated docstring holds no quote.  The insertion order of  *)
(* the dictionaries is not tracked.  create_agent, create_base_model,      *)
(* bind_model and get_tools hand out a new object at every call.           *)
(***************************************************************************)
EXTENDS Integers, Sequences, FiniteSets, TLC

\* Longest list discover_plugins() returns in one pass.
MaxContracts == 2

\* Plugin names are strings; a string is a sequence of one-character strings
\* so that the code generated by get_coordinator_tools can be examined.
Names == { <<"a">>, <<"b">> }

\* The same, with a name that is no Python identifier.
AnyNames == Names \cup { <<"a", "-", "b">> }

\* Longest list discover_plugins() returns when names are drawn from AnyNames.
MaxAnyNameContracts == 1

\* Names of the plugin package directories under plugins_dir.
PluginDirs == { <<"a">>, <<"b">> }

\* Characters (of the model's alphabet) Python accepts inside an identifier.
IdentifierChars == { "a", "b", "g", "o", "t", "_" }

\* A construction that binds the model before it asks for the tools.
Phases_BindFirst ==
    << "get_metadata", "validate_plugin_structure", "validate_dependencies",
       "create_agent", "_create_model_config", "create_base_model",
       "bind_model", "get_tools", "initialize", "SDKPluginBundle" >>

\* The calls of _create_plugin_bundle, in the order the code makes them.
Phases ==
    << "get_metadata", "validate_plugin_structure", "validate_dependencies",
       "create_agent", "_create_model_config", "create_base_model",
       "get_tools", "bind_model", "initialize", "SDKPluginBundle" >>

\* The phases that return a list of errors instead of raising.
ValidationPhases == { "validate_plugin_structure", "validate_dependencies" }

\* What one contract does during its construction: it passes every phase
\* (at = 0), or phase number `at` raises, or (a validation phase) returns a
\* non-empty error list.
Behaviours ==
    { [at |-> 0, how |-> "pass"] }
    \cup { [at |-> i, how |-> "raise"] : i \in 1..Len(Phases) }
    \cup { [at |-> i, how |-> "errors"] :
             i \in { j \in 1..Len(Phases) : Phases[j] \in ValidationPhases } }

\* The class of a behaviour: "ok", "invalid" (validation errors), "raises".
Kind(beh) ==
    IF beh.at = 0 THEN "ok"
    ELSE IF beh.how = "errors" THEN "invalid" ELSE "raises"

Kinds == { "ok", "invalid", "raises" }

\* What one health_check() call does.
HealthOutcomes == { "healthy", "unhealthy", "raise" }

VARIABLES
    plugin_bundles,    \* name -> bundle                       (line 97)
    plugin_contracts,  \* name -> contract                     (line 98)
    healthy_plugins,   \* set of names                         (line 100)
    failed_plugins,    \* set of names                         (line 101)
    pc,                \* position inside the running operation
    op,                \* the operation running (or the last one that ran)
    contracts,         \* the list discover_plugins() returned in this pass
    processed,         \* how many of them the construction loop has handled
    import_failed,     \* directories whose import raised in this pass
    results,           \* return value of the last perform_health_checks()
    propagated,        \* an exception escaped the last operation
    checked,           \* what each health_check() did in the last sweep
    repeated,          \* the last sweep repeated the one before it: no
                       \* operation in between, the same health_check() outcomes
    last_beh,          \* what the contract the loop has just handled did
    before_reload      \* the available plugins when reload_plugins() was called

vars ==
    << plugin_bundles, plugin_contracts, healthy_plugins, failed_plugins,
       pc, op, contracts, processed, import_failed, results, propagated,
       checked, repeated, last_beh, before_reload >>

EmptyMap == [n \in {} |-> TRUE]

\* No contract has been handled since the loop was entered.
NoBehaviour == [at |-> 0, how |-> "none"]

\* d[k] = v, as a Python dict assignment (an existing key is overwritten).
DictSet(d, k, v) ==
    [n \in DOMAIN d \cup {k} |-> IF n = k THEN v ELSE d[n]]

Init ==
    /\ plugin_bundles = EmptyMap
    /\ plugin_contracts = EmptyMap
    /\ healthy_plugins = {}
    /\ failed_plugins = {}
    /\ pc = "idle"
    /\ op = "none"
    /\ contracts = << >>
    /\ processed = 0
    /\ import_failed = {}
    /\ results = EmptyMap
    /\ propagated = FALSE
    /\ checked = EmptyMap
    /\ repeated = FALSE
    /\ last_beh = NoBehaviour
    /\ before_reload = {}

(***************************************************************************)
(* Discovery                                                               *)
(***************************************************************************)

\* A contract as discover_plugins() returns it: its declared name, its
\* position in the returned list (its identity within the pass) and the
\* class of what its plugin will do when it is constructed.
ContractLists(names, max) ==
    UNION { [1..n -> names \X Kinds] : n \in 0..max }

\* The identity of a contract within its list: two contracts that declare
\* the same name are told apart by the order in which they were registered.
MakeContracts(l) ==
    [i \in DOMAIN l |->
        [name |-> l[i][1],
         id |-> Cardinality({ j \in 1..i : l[j][1] = l[i][1] }),
         kind |-> l[i][2]]]

\* load_plugin_packages: every directory is imported inside its own
\* try/except; a directory whose import raises is added to failed_plugins
\* and the loop goes on.  ImportEscapes tells whether an exception leaves
\* the method.
ImportEscapes(failing) == FALSE

FailedAfterLoad(failed, failing) == failed \cup failing

(***************************************************************************)
(* _create_plugin_bundle                                                   *)
(***************************************************************************)

\* The calls made for a contract behaving as beh: the phases up to and
\* including the one that fails.
CallsMade(beh) ==
    IF beh.at = 0 THEN Phases ELSE SubSeq(Phases, 1, beh.at)

\* The calls that returned: without an exception and, for a validation
\* phase, without errors.
CallsReturned(beh) ==
    IF beh.at = 0 THEN Phases ELSE SubSeq(Phases, 1, beh.at - 1)

\* A construction that registers the bundle as soon as the tools and the
\* bound model exist, before agent.initialize().
TryBody_RegisterEarly(beh) ==
    IF beh.at = 0
    THEN [ret |-> TRUE, reg |-> TRUE, exc |-> FALSE]
    ELSE IF beh.how = "errors"
         THEN [ret |-> FALSE, reg |-> FALSE, exc |-> FALSE]
         ELSE [ret |-> FALSE,
               reg |-> Phases[beh.at] \in { "initialize", "SDKPluginBundle" },
               exc |-> TRUE]

\* A construction that logs the validation errors and goes on.
TryBody_IgnoreErrors(beh) ==
    IF beh.at = 0 \/ beh.how = "errors"
    THEN [ret |-> TRUE, reg |-> TRUE, exc |-> FALSE]
    ELSE [ret |-> FALSE, reg |-> FALSE, exc |-> TRUE]

\* The body of the try block: ret is the value returned, reg whether the
\* bundle was registered, exc whether an exception left the block.
TryBody(beh) ==
    IF beh.at = 0
    THEN [ret |-> TRUE, reg |-> TRUE, exc |-> FALSE]
    ELSE IF beh.how = "errors"
         THEN [ret |-> FALSE, reg |-> FALSE, exc |-> FALSE]
         ELSE [ret |-> FALSE, reg |-> FALSE, exc |-> TRUE]

\* An except branch that registers what the try block had built so far.
ExceptException_RegisterPartial(r) ==
    IF r.exc THEN [ret |-> FALSE, reg |-> TRUE, exc |-> FALSE] ELSE r

\* except Exception: log under contract.name and return False; what the
\* try block did before the exception stays done.
ExceptException(r) ==
    IF r.exc THEN [ret |-> FALSE, reg |-> r.reg, exc |-> FALSE] ELSE r

CreatePluginBundle(beh) == ExceptException(TryBody(beh))

\* The identity of the objects a construction creates (the agent, the bound
\* model, the tool list) is kept relative to the passes: an object is one
\* created in the pass that is running (or ran last), or an earlier one.
NewObject == "this_pass"

OldObject == "earlier"

\* A construction that hands out the objects of an earlier one.
Bundle_Cached(contract) ==
    [contract |-> contract, metadata |-> [name |-> contract.name],
     agent |-> OldObject, bound_model |-> OldObject, tools |-> OldObject]

\* SDKPluginBundle(contract, agent, bound_model, tools), on the agent, the
\* bound model and the tools _create_plugin_bundle has just created.
Bundle(contract) ==
    [contract |-> contract, metadata |-> [name |-> contract.name],
     agent |-> NewObject, bound_model |-> NewObject, tools |-> NewObject]

\* The bundles as a new pass sees them: their objects are earlier ones.
Aged(bundles) ==
    [n \in DOMAIN bundles |->
        [bundles[n] EXCEPT !.agent = OldObject, !.bound_model = OldObject,
                           !.tools = OldObject]]

\* A registration that keeps the bundle a name already has.
BundlesAfter_KeepFirst(bundles, contract, r) ==
    IF r.reg /\ contract.name \notin DOMAIN bundles
    THEN DictSet(bundles, contract.name, Bundle(contract))
    ELSE bundles

\* A construction that, when it fails, drops the bundle the name had.
BundlesAfter_DropOnFailure(bundles, contract, r) ==
    IF r.reg
    THEN DictSet(bundles, contract.name, Bundle(contract))
    ELSE [n \in DOMAIN bundles \ {contract.name} |-> bundles[n]]

\* self.plugin_bundles[plugin_name] = bundle
BundlesAfter(bundles, contract, r) ==
    IF r.reg THEN DictSet(bundles, contract.name, Bundle(contract)) ELSE bundles

\* A registration that stores the bundle and forgets the contract.
ContractsAfter_Forgotten(cs, contract, r) == cs

\* self.plugin_contracts[plugin_name] = contract
ContractsAfter(cs, contract, r) ==
    IF r.reg THEN DictSet(cs, contract.name, contract) ELSE cs

\* self.healthy_plugins.add(plugin_name)
HealthyAfter(healthy, contract, r) ==
    IF r.reg THEN healthy \cup {contract.name} ELSE healthy

\* The handler of the construction loop: an exception that leaves
\* _create_plugin_bundle adds contract.name to failed_plugins.
FailedAfter(failed, contract, r) ==
    IF r.exc THEN failed \cup {contract.name} ELSE failed

\* A loop that is left at the first contract that is not registered.
LoopGoesOn_StopAtFailure(r) == r.ret

\* The try/except sits inside the loop body: the loop goes on to the next
\* contract whatever the result of this one.
LoopGoesOn(r) == TRUE

(***************************************************************************)
(* perform_health_checks                                                   *)
(***************************************************************************)

\* A debounced iteration: a plugin that is marked failed is reported unhealthy
\* once more, whatever its health_check() says, and only leaves the failed set.
HealthCheckOne_Debounced(st, name, outcome) ==
    IF outcome = "healthy" /\ name \notin st.failed
    THEN [healthy |-> st.healthy \cup {name},
          failed |-> st.failed,
          results |-> DictSet(st.results, name, TRUE)]
    ELSE IF outcome = "healthy"
    THEN [healthy |-> st.healthy,
          failed |-> st.failed \ {name},
          results |-> DictSet(st.results, name, FALSE)]
    ELSE [healthy |-> st.healthy \ {name},
          failed |-> st.failed \cup {name},
          results |-> DictSet(st.results, name, FALSE)]

\* One iteration of the sweep, for the contract registered under name whose
\* health_check() does `outcome`; st is [healthy, failed, results].
HealthCheckOne(st, name, outcome) ==
    IF outcome = "raise"
    THEN [healthy |-> st.healthy,
          failed |-> st.failed \cup {name},
          results |-> DictSet(st.results, name, FALSE)]
    ELSE IF outcome = "healthy"
    THEN [healthy |-> st.healthy \cup {name},
          failed |-> st.failed \ {name},
          results |-> DictSet(st.results, name, TRUE)]
    ELSE [healthy |-> st.healthy \ {name},
          failed |-> st.failed \cup {name},
          results |-> DictSet(st.results, name, FALSE)]

\* A sweep without the try/except around health_check().
HealthCheckEscapes_Uncaught(outcome) == outcome = "raise"

\* An exception of health_check() is caught inside the loop body.
HealthCheckEscapes(outcome) == FALSE

RECURSIVE Sweep(_, _, _)
Sweep(st, todo, outcomes) ==
    IF todo = {} THEN st
    ELSE LET n == CHOOSE x \in todo : TRUE
         IN Sweep(HealthCheckOne(st, n, outcomes[n]), todo \ {n}, outcomes)

PerformHealthChecks(outcomes) ==
    Sweep([healthy |-> healthy_plugins, failed |-> failed_plugins,
           results |-> EmptyMap],
          DOMAIN plugin_contracts, outcomes)

(***************************************************************************)
(* reload_plugins and the queries                                          *)
(***************************************************************************)

\* A reload that leaves the health sets as they are.
ClearSet_Keep(set) == set

\* self.healthy_plugins.clear() and self.failed_plugins.clear()
ClearSet(set) == {}

\* A reload that leaves the dictionary as it is.
ClearDict_Keep(d) == d

\* self.plugin_bundles.clear() and self.plugin_contracts.clear()
ClearDict(d) == EmptyMap

None == "None"

\* self.plugin_bundles.get(name)
GetPluginBundle(name) ==
    IF name \in DOMAIN plugin_bundles THEN plugin_bundles[name] ELSE None

\* The elements of a set as a list, in some fixed order (the insertion
\* order of the dictionary is not tracked).
RECURSIVE SetToSeq(_)
SetToSeq(set) ==
    IF set = {} THEN << >>
    ELSE LET x == CHOOSE y \in set : TRUE
         IN << x >> \o SetToSeq(set \ {x})

\* A list of the names in healthy_plugins only.
GetAvailablePlugins_HealthyOnly ==
    SetToSeq(DOMAIN plugin_bundles \cap (healthy_plugins \ failed_plugins))

\* list(self.plugin_bundles.keys())
GetAvailablePlugins == SetToSeq(DOMAIN plugin_bundles)

(***************************************************************************)
(* get_coordinator_tools                                                   *)
(***************************************************************************)

\* func_name = f"goto_{name}"
FuncName(name) == << "g", "o", "t", "o", "_" >> \o name

\* Whether Python reads chars as one identifier, as `def <chars>():` needs.
IsIdentifier(chars) ==
    /\ chars # << >>
    /\ \A i \in DOMAIN chars : chars[i] \in IdentifierChars

\* The value of the literal "<chars>" of the generated return statement:
\* the characters themselves, the alphabet holding no quote or backslash.
StringLiteral(chars) == chars

\* make_goto_tool: the source text is generated from the name, exec'd, and
\* the function it defines is wrapped as a tool.  exec raises SyntaxError
\* when the def line does not parse.
MakeGotoTool(name) ==
    IF IsIdentifier(FuncName(name))
    THEN [raised |-> FALSE,
          tool |-> [name |-> FuncName(name), returns |-> StringLiteral(name)]]
    ELSE [raised |-> TRUE, tool |-> None]

\* @tool def finalize(): return "final"
Finalize ==
    [name |-> << "f", "i", "n", "a", "l", "i", "z", "e" >>,
     returns |-> << "f", "i", "n", "a", "l" >>]

\* The loop over get_available_plugins(): plugin_contracts[plugin_name] is
\* looked up (KeyError when missing) and the tool appended.
RECURSIVE GotoTools(_)
GotoTools(names) ==
    IF names = << >> THEN [raised |-> FALSE, tools |-> << >>]
    ELSE LET first == Head(names)
             made == MakeGotoTool(first)
             rest == GotoTools(Tail(names))
         IN IF first \notin DOMAIN plugin_contracts \/ made.raised \/ rest.raised
            THEN [raised |-> TRUE, tools |-> << >>]
            ELSE [raised |-> FALSE, tools |-> << made.tool >> \o rest.tools]

\* get_coordinator_tools(): the list returned, or raised = TRUE.
GetCoordinatorTools ==
    LET goto == GotoTools(GetAvailablePlugins)
    IN IF goto.raised THEN goto
       ELSE [raised |-> FALSE, tools |-> Append(goto.tools, Finalize)]

(***************************************************************************)
(* SDKPluginBundle.get_graph_nodes and get_graph_edges                     *)
(***************************************************************************)

\* The literal parts of the node names, as character sequences.
AgentSuffix == << "_", "a", "g", "e", "n", "t" >>

ToolsSuffix == << "_", "t", "o", "o", "l", "s" >>

Coordinator == << "c", "o", "o", "r", "d", "i", "n", "a", "t", "o", "r" >>

\* The dict literal of get_graph_nodes: agent.create_agent_node() under
\* f"{agent_name}_agent" and ToolNode(tools) under f"{agent_name}_tools".
GetGraphNodes(bundle) ==
    LET agent_name == bundle.metadata.name IN
    DictSet(DictSet(EmptyMap, agent_name \o AgentSuffix,
                    << "agent_node", bundle.agent >>),
            agent_name \o ToolsSuffix, << "tool_node", bundle.tools >>)

\* Edges whose tool loop runs from the agent node to the tool node.
GetGraphEdges_LoopReversed(bundle) ==
    LET agent_name == bundle.metadata.name IN
    [conditional_edges |->
        DictSet(EmptyMap, agent_name \o AgentSuffix,
                [condition |-> << "should_continue", bundle.agent >>,
                 mapping |-> [continue |-> agent_name \o ToolsSuffix,
                              back |-> Coordinator]]),
     direct_edges |->
        << << agent_name \o AgentSuffix, agent_name \o ToolsSuffix >> >>]

\* The dict literal of get_graph_edges.
GetGraphEdges(bundle) ==
    LET agent_name == bundle.metadata.name IN
    [conditional_edges |->
        DictSet(EmptyMap, agent_name \o AgentSuffix,
                [condition |-> << "should_continue", bundle.agent >>,
                 mapping |-> [continue |-> agent_name \o ToolsSuffix,
                              back |-> Coordinator]]),
     direct_edges |->
        << << agent_name \o ToolsSuffix, agent_name \o AgentSuffix >> >>]

(***************************************************************************)
(* Actions                                                                 *)
(***************************************************************************)

PassOps == { "discover_and_load_plugins", "reload_plugins" }

\* Where a discovery pass goes when its construction loop is over.
AfterLoop == IF op = "reload_plugins" THEN "health" ELSE "idle"

\* load_plugin_packages, the first statement of discover_and_load_plugins.
LoadStep ==
    \E failing \in SUBSET PluginDirs :
        /\ failed_plugins' = FailedAfterLoad(failed_plugins, failing)
        /\ import_failed' = failing
        /\ propagated' = ImportEscapes(failing)
        /\ pc' = IF ImportEscapes(failing) THEN "idle" ELSE "discover"

\* discover_and_load_plugins() is called.
DiscoverAndLoadPlugins ==
    /\ pc = "idle"
    /\ op' = "discover_and_load_plugins"
    /\ LoadStep
    /\ contracts' = << >>
    /\ processed' = 0
    /\ results' = EmptyMap
    /\ checked' = EmptyMap
    /\ repeated' = FALSE
    /\ last_beh' = NoBehaviour
    /\ before_reload' = {}
    /\ plugin_bundles' = Aged(plugin_bundles)
    /\ UNCHANGED << plugin_contracts, healthy_plugins >>

\* reload_plugins() is called: the four collections are cleared.
ReloadPlugins ==
    /\ pc = "idle"
    /\ op' = "reload_plugins"
    /\ pc' = "load"
    /\ before_reload' = DOMAIN plugin_bundles
    /\ plugin_bundles' = ClearDict(Aged(plugin_bundles))
    /\ plugin_contracts' = ClearDict(plugin_contracts)
    /\ healthy_plugins' = ClearSet(healthy_plugins)
    /\ failed_plugins' = ClearSet(failed_plugins)
    /\ contracts' = << >>
    /\ processed' = 0
    /\ import_failed' = {}
    /\ results' = EmptyMap
    /\ propagated' = FALSE
    /\ checked' = EmptyMap
    /\ repeated' = FALSE
    /\ last_beh' = NoBehaviour

\* reload_plugins: the call of discover_and_load_plugins, its first statement.
ReloadLoad ==
    /\ pc = "load"
    /\ LoadStep
    /\ UNCHANGED << plugin_bundles, plugin_contracts, healthy_plugins, op,
                    contracts, processed, results, checked, repeated,
                    last_beh, before_reload >>

\* contracts = discover_plugins()
Discover(lists) ==
    /\ pc = "discover"
    /\ \E l \in lists : contracts' = MakeContracts(l)
    /\ pc' = "construct"
    /\ UNCHANGED << plugin_bundles, plugin_contracts, healthy_plugins,
                    failed_plugins, op, processed, import_failed,
                    results, propagated, checked, repeated, last_beh,
                    before_reload >>

\* One iteration of the construction loop.
Construct ==
    /\ pc = "construct"
    /\ processed < Len(contracts)
    /\ LET contract == contracts[processed + 1] IN
       \E beh \in Behaviours :
          /\ Kind(beh) = contract.kind
          /\ LET r == CreatePluginBundle(beh) IN
             /\ plugin_bundles' = BundlesAfter(plugin_bundles, contract, r)
             /\ plugin_contracts' = ContractsAfter(plugin_contracts, contract, r)
             /\ healthy_plugins' = HealthyAfter(healthy_plugins, contract, r)
             /\ failed_plugins' = FailedAfter(failed_plugins, contract, r)
             /\ pc' = IF LoopGoesOn(r) THEN "construct" ELSE AfterLoop
             /\ last_beh' = beh
    /\ processed' = processed + 1
    /\ UNCHANGED << op, contracts, import_failed, results, propagated,
                    checked, repeated, before_reload >>

\* The construction loop has handled every contract.
EndConstruction ==
    /\ pc = "construct"
    /\ processed = Len(contracts)
    /\ pc' = AfterLoop
    /\ last_beh' = NoBehaviour
    /\ UNCHANGED << plugin_bundles, plugin_contracts, healthy_plugins,
                    failed_plugins, op, contracts, processed,
                    import_failed, results, propagated, checked, repeated,
                    before_reload >>

\* The operations that end with a sweep.
SweepOps == { "perform_health_checks", "reload_plugins" }

\* The sweep over plugin_contracts, for the given health_check() outcomes.
SweepStep ==
    \E outcomes \in [DOMAIN plugin_contracts -> HealthOutcomes] :
        LET st == PerformHealthChecks(outcomes)
            esc == \E n \in DOMAIN outcomes : HealthCheckEscapes(outcomes[n])
        IN /\ healthy_plugins' = st.healthy
           /\ failed_plugins' = st.failed
           /\ results' = st.results
           /\ propagated' = esc
           /\ checked' = outcomes
           /\ repeated' = (pc = "idle" /\ op \in SweepOps /\ outcomes = checked)
           /\ pc' = "idle"

\* reload_plugins: the call of perform_health_checks.
ReloadHealth ==
    /\ pc = "health"
    /\ SweepStep
    /\ UNCHANGED << plugin_bundles, plugin_contracts, op, contracts,
                    processed, import_failed, last_beh, before_reload >>

\* perform_health_checks() is called.
PerformHealthChecksCall ==
    /\ pc = "idle"
    /\ op' = "perform_health_checks"
    /\ SweepStep
    /\ contracts' = << >>
    /\ processed' = 0
    /\ import_failed' = {}
    /\ last_beh' = NoBehaviour
    /\ before_reload' = {}
    /\ UNCHANGED << plugin_bundles, plugin_contracts >>

\* Every step but the call of discover_plugins().
ManagerStep ==
    \/ DiscoverAndLoadPlugins
    \/ ReloadPlugins
    \/ ReloadLoad
    \/ Construct
    \/ EndConstruction
    \/ ReloadHealth
    \/ PerformHealthChecksCall

Next ==
    \/ ManagerStep
    \/ Discover(ContractLists(Names, MaxContracts))

Spec == Init /\ [][Next]_vars

\* The manager over plugins whose names need not be Python identifiers.
NextAnyName ==
    \/ ManagerStep
    \/ Discover(ContractLists(AnyNames, MaxAnyNameContracts))

SpecAnyName == Init /\ [][NextAnyName]_vars

(***************************************************************************)
(* Properties                                                              *)
(***************************************************************************)

\* A discovery pass has just run its construction loop to the end (inside
\* reload_plugins: before or after the health sweep that follows it).
DiscoverPassOver ==
    pc = "idle" /\ op = "discover_and_load_plugins"

ReloadOver ==
    pc = "idle" /\ op = "reload_plugins"

PassOver ==
    DiscoverPassOver \/ pc = "health" \/ ReloadOver

\* The names of the contracts of this pass that passed every phase.
Succeeded ==
    { contracts[i].name : i \in { j \in 1..processed : contracts[j].kind = "ok" } }

\* The positions of the contracts of this pass that declare name.
Declaring(name) ==
    { i \in 1..Len(contracts) : contracts[i].name = name }

\* The last of them.
LastDeclaring(name) ==
    CHOOSE i \in Declaring(name) : \A j \in Declaring(name) : j <= i

\* The plugins the goto handles of a tool list route to.
Targets(tools) ==
    { tools[i].returns : i \in { j \in DOMAIN tools : tools[j] # Finalize } }

\* C1: whenever the manager is between operations, no plugin name is in
\* both healthy_plugins and failed_plugins.
C1_HealthSetsDisjoint ==
    pc = "idle" => healthy_plugins \cap failed_plugins = {}

\* C2: after a discover_and_load_plugins pass, the name of every contract
\* whose structural or dependency validation returned errors is in
\* failed_plugins.
C2_ValidationFailureMarkedFailed ==
    DiscoverPassOver =>
        \A i \in 1..Len(contracts) :
            contracts[i].kind = "invalid" => contracts[i].name \in failed_plugins

\* C3: as soon as a construction phase of a contract has raised, inside the
\* pass and before any health check, the contract's name is in
\* failed_plugins.
C3_ConstructionFailureMarkedFailed ==
    (pc = "construct" \/ pc = "health" \/ DiscoverPassOver) =>
        \A i \in 1..processed :
            contracts[i].kind = "raises" => contracts[i].name \in failed_plugins

\* C4 as claimed: after a discovery pass, a name whose latest contract
\* failed validation is not among the available plugins.
C4_InvalidNeverAvailable ==
    DiscoverPassOver =>
        \A i \in 1..Len(contracts) :
            (i = LastDeclaring(contracts[i].name) /\ contracts[i].kind = "invalid")
                => contracts[i].name \notin DOMAIN plugin_bundles

\* C4 as amended: constructing a contract that fails validation registers
\* nothing; plugin_bundles is left as it was, so the name is available
\* afterwards only if it was available before.
C4_InvalidRegistersNothing ==
    [][ (pc = "construct" /\ processed' = processed + 1
            /\ contracts[processed + 1].kind = "invalid")
        => plugin_bundles' = plugin_bundles ]_vars

\* A pass has processed a contract that failed validation, and the name is
\* available all the same, from a bundle registered earlier.
C4_Witness ==
    /\ DiscoverPassOver
    /\ \E i \in 1..Len(contracts) :
          /\ i = LastDeclaring(contracts[i].name)
          /\ contracts[i].kind = "invalid"
          /\ contracts[i].name \in DOMAIN plugin_bundles

\* C5: when a pass is over, every contract of the pass that passes all
\* phases and shares its name with no other contract is registered, with
\* its own bundle, whatever the other contracts did and wherever they stood
\* in the list.
C5_FailureIsolation ==
    PassOver =>
        \A i \in 1..Len(contracts) :
            (contracts[i].kind = "ok" /\ Declaring(contracts[i].name) = {i})
                => /\ contracts[i].name \in DOMAIN plugin_bundles
                   /\ plugin_bundles[contracts[i].name] = Bundle(contracts[i])

\* A pass in which the first contract failed and the second, of another
\* name, was registered after it.
C5_Witness ==
    /\ DiscoverPassOver
    /\ Len(contracts) = 2
    /\ contracts[1].kind = "raises"
    /\ contracts[2].kind = "ok"
    /\ contracts[1].name # contracts[2].name
    /\ contracts[1].name \notin DOMAIN plugin_bundles
    /\ contracts[2].name \in DOMAIN plugin_bundles

\* C6 as claimed: after reload_plugins() the two dictionaries and the
\* health sets hold exactly the plugins that succeeded in this pass.
C6_ReloadExactlySucceeded ==
    ReloadOver =>
        /\ DOMAIN plugin_bundles = Succeeded
        /\ DOMAIN plugin_contracts = Succeeded
        /\ healthy_plugins \cup failed_plugins = Succeeded

\* C6 as amended: after reload_plugins() the two dictionaries hold exactly
\* the plugins that succeeded in this pass, every one of them is in a
\* health set, and the health sets hold nothing else but (failed_plugins)
\* the directories whose import failed in this pass.
C6_ReloadNoResidue ==
    ReloadOver =>
        /\ DOMAIN plugin_bundles = Succeeded
        /\ DOMAIN plugin_contracts = Succeeded
        /\ Succeeded \subseteq healthy_plugins \cup failed_plugins
        /\ healthy_plugins \subseteq Succeeded
        /\ failed_plugins \subseteq Succeeded \cup import_failed

\* A reload in which a package failed to import, one contract failed and
\* another was registered.
C6_Witness ==
    /\ ReloadOver
    /\ import_failed # {}
    /\ import_failed \cap Succeeded = {}
    /\ Succeeded # {}
    /\ \E i \in 1..Len(contracts) :
          contracts[i].kind # "ok" /\ contracts[i].name \notin Succeeded

\* C7: get_coordinator_tools() returns one handle per available plugin,
\* which yields that plugin's name, and one finalize handle, which yields
\* "final": len(get_available_plugins()) + 1 handles in all.
C7_OneHandlePerPlugin ==
    pc = "idle" =>
        LET r == GetCoordinatorTools IN
        /\ ~r.raised
        /\ Len(r.tools) = Len(GetAvailablePlugins) + 1
        /\ \A n \in DOMAIN plugin_bundles :
              Cardinality({ i \in DOMAIN r.tools : r.tools[i].name = FuncName(n) }) = 1
        /\ \A i \in DOMAIN r.tools :
              \A n \in DOMAIN plugin_bundles :
                  r.tools[i].name = FuncName(n) => r.tools[i].returns = n
        /\ Cardinality({ i \in DOMAIN r.tools : r.tools[i] = Finalize }) = 1

\* C8 as claimed: the handles get_coordinator_tools() returns route to
\* healthy plugins only, and every healthy plugin has one.
C8_HandlesForHealthyOnly ==
    (pc = "idle" /\ ~GetCoordinatorTools.raised) =>
        /\ Targets(GetCoordinatorTools.tools) \subseteq healthy_plugins \ failed_plugins
        /\ healthy_plugins \subseteq Targets(GetCoordinatorTools.tools)

\* C8 as amended: the handles get_coordinator_tools() returns route to the
\* available plugins, healthy or failed: to every plugin that has a bundle
\* and to no other; every healthy plugin is among them.
C8_HandlesForAvailable ==
    (pc = "idle" /\ ~GetCoordinatorTools.raised) =>
        /\ Targets(GetCoordinatorTools.tools) = DOMAIN plugin_bundles
        /\ healthy_plugins \subseteq Targets(GetCoordinatorTools.tools)

\* A plugin that is failed and not healthy has a handle.
C8_Witness ==
    /\ pc = "idle"
    /\ ~GetCoordinatorTools.raised
    /\ \E n \in Targets(GetCoordinatorTools.tools) :
          n \in failed_plugins /\ n \notin healthy_plugins

\* C9: when several contracts of a pass declare the same name and the one
\* processed last is constructed, get_plugin_bundle(name) is the bundle
\* built from that last one.
C9_LastRegisteredWins ==
    PassOver =>
        \A n \in { contracts[i].name : i \in 1..Len(contracts) } :
            (Cardinality(Declaring(n)) >= 2 /\ contracts[LastDeclaring(n)].kind = "ok")
                => /\ GetPluginBundle(n) = Bundle(contracts[LastDeclaring(n)])
                   /\ plugin_contracts[n] = contracts[LastDeclaring(n)]

\* Two contracts of one name were both constructed in this pass and the
\* bundle is the second one's.
C9_Witness ==
    /\ DiscoverPassOver
    /\ Len(contracts) = 2
    /\ contracts[1].name = contracts[2].name
    /\ contracts[1].kind = "ok"
    /\ contracts[2].kind = "ok"
    /\ GetPluginBundle(contracts[2].name) = Bundle(contracts[2])
    /\ GetPluginBundle(contracts[2].name) # Bundle(contracts[1])

\* C10: no operation lets an exception escape: a pass that has returned
\* has handled every discovered contract, and a sweep that has returned
\* has a result for every registered contract.
C10_NeverRaises ==
    /\ ~propagated
    /\ (pc = "idle" /\ op \in PassOps) => processed = Len(contracts)
    /\ (pc = "idle" /\ op \in { "reload_plugins", "perform_health_checks" })
          => DOMAIN results = DOMAIN plugin_contracts

\* A reload has returned although a package failed to import, a contract
\* raised during construction and a health_check() raised.
C10_Witness ==
    /\ ReloadOver
    /\ ~propagated
    /\ import_failed # {}
    /\ \E i \in 1..Len(contracts) : contracts[i].kind = "raises"
    /\ \E n \in DOMAIN results : ~results[n] /\ n \in healthy_plugins

\* A sweep has just returned.
SweepOver ==
    pc = "idle" /\ op \in SweepOps

\* C11: perform_health_checks() is idempotent: a call that follows a sweep
\* directly, with every health_check() doing what it did in that sweep,
\* returns the same mapping and leaves both health sets as the first sweep
\* left them.
C11_SweepIdempotent ==
    [][(SweepOver /\ op' = "perform_health_checks" /\ checked' = checked)
       => /\ results' = results
          /\ healthy_plugins' = healthy_plugins
          /\ failed_plugins' = failed_plugins]_vars

\* A repeated sweep over a plugin whose health_check() raises and over one
\* that reports healthy.
C11_Witness ==
    /\ repeated
    /\ \E n \in DOMAIN checked : checked[n] = "raise"
    /\ \E n \in DOMAIN checked : checked[n] = "healthy" /\ results[n]

\* C12: after a sweep the health state of every registered contract is the
\* one this sweep's health_check() outcome gives, whatever it was before:
\* healthy puts it in healthy_plugins only, unhealthy or an exception in
\* failed_plugins only.
C12_SweepOverwrites ==
    SweepOver =>
        \A n \in DOMAIN checked :
            IF checked[n] = "healthy"
            THEN n \in healthy_plugins /\ n \notin failed_plugins /\ results[n]
            ELSE n \in failed_plugins /\ n \notin healthy_plugins /\ ~results[n]

\* The elements of a sequence.
Ran(seq) == { seq[i] : i \in DOMAIN seq }

\* x comes before y in seq.
Before(seq, x, y) ==
    \E i, j \in DOMAIN seq : i < j /\ seq[i] = x /\ seq[j] = y

\* Every call of seq that order names was made after all the calls order
\* names before it.
Follows(seq, order) ==
    \A j \in DOMAIN order :
        order[j] \in Ran(seq) =>
            \A i \in 1..(j - 1) : Before(seq, order[i], order[j])

\* The construction loop has just handled contracts[processed].
JustConstructed ==
    last_beh # NoBehaviour

\* The construction just made registered the bundle it built.
RegisteredNow ==
    /\ JustConstructed
    /\ contracts[processed].name \in DOMAIN plugin_bundles
    /\ plugin_bundles[contracts[processed].name] = Bundle(contracts[processed])

\* C13: in the construction of one plugin, initialize() is called only after
\* bind_model and get_tools have both returned, the bundle is registered only
\* after initialize() has returned, and if bind_model or get_tools fails,
\* initialize() is not called.
C13_InitializeAfterBindAndTools ==
    JustConstructed =>
        LET calls == CallsMade(last_beh)
            returned == CallsReturned(last_beh)
        IN /\ "initialize" \in Ran(calls) =>
                /\ { "bind_model", "get_tools" } \subseteq Ran(returned)
                /\ Before(calls, "bind_model", "initialize")
                /\ Before(calls, "get_tools", "initialize")
           /\ RegisteredNow => "initialize" \in Ran(returned)
           /\ (/\ last_beh.how = "raise"
               /\ Phases[last_beh.at] \in { "bind_model", "get_tools" })
                => "initialize" \notin Ran(calls)

\* A construction that went through initialize() and registered its bundle.
C13_Witness ==
    /\ RegisteredNow
    /\ "initialize" \in Ran(CallsReturned(last_beh))
    /\ Before(CallsMade(last_beh), "initialize", "SDKPluginBundle")

\* C14: the phases of one construction run in the numbered order of the
\* pipeline: structural validation, validate_dependencies, create_agent,
\* model binding (configuration, create_base_model, bind_model), and only
\* then get_tools followed by initialize; bind_model is called before
\* get_tools.
C14_BindBeforeTools ==
    JustConstructed =>
        Follows(CallsMade(last_beh),
                << "validate_plugin_structure", "validate_dependencies",
                   "create_agent", "_create_model_config",
                   "create_base_model", "bind_model", "get_tools",
                   "initialize" >>)

\* C14, as the code has it: structural validation, validate_dependencies,
\* create_agent, the model configuration, create_base_model, then get_tools,
\* then bind_model, then initialize; get_tools is called before bind_model.
C14_ToolsBeforeBind ==
    JustConstructed =>
        Follows(CallsMade(last_beh),
                << "validate_plugin_structure", "validate_dependencies",
                   "create_agent", "_create_model_config",
                   "create_base_model", "get_tools", "bind_model",
                   "initialize" >>)

\* A construction in which bind_model raised: get_tools had been called and
\* had returned by then.
C14_Witness ==
    /\ JustConstructed
    /\ last_beh.how = "raise"
    /\ Phases[last_beh.at] = "bind_model"
    /\ "get_tools" \in Ran(CallsReturned(last_beh))

\* C15: a bundle exists only for a fully successful construction: every name
\* in plugin_bundles is the name of a contract whose construction, in the
\* pass that registered it, passed validation and every call up to and
\* including the bundle constructor (which calls create_agent_node); a
\* construction that registers has had every phase return.
C15_BundleOnlyIfAllPhasesPassed ==
    /\ \A n \in DOMAIN plugin_bundles :
          /\ plugin_bundles[n].contract.kind = "ok"
          /\ plugin_bundles[n].contract.name = n
          /\ plugin_bundles[n].metadata.name = n
    /\ RegisteredNow => CallsReturned(last_beh) = Phases

\* A contract has just failed in the bundle constructor, the last phase, and
\* has no bundle, while another plugin of the manager has one.
C15_Witness ==
    /\ JustConstructed
    /\ last_beh.how = "raise"
    /\ Phases[last_beh.at] = "SDKPluginBundle"
    /\ contracts[processed].name \notin DOMAIN plugin_bundles
    /\ plugin_bundles # EmptyMap

\* C16: the graph fragment of every registered bundle of plugin P is closed
\* and well-formed: the nodes are exactly "P_agent" and "P_tools"; there is
\* one conditional edge, from "P_agent", mapping "continue" to "P_tools" and
\* "back" to "coordinator"; there is one direct edge, from "P_tools" to
\* "P_agent"; every endpoint is one of the two nodes or "coordinator".
C16_GraphFragmentWellFormed ==
    \A P \in DOMAIN plugin_bundles :
        LET nodes == GetGraphNodes(plugin_bundles[P])
            edges == GetGraphEdges(plugin_bundles[P])
            P_agent == P \o AgentSuffix
            P_tools == P \o ToolsSuffix
            cond == edges.conditional_edges
            direct == edges.direct_edges
        IN /\ DOMAIN nodes = { P_agent, P_tools }
           /\ Cardinality(DOMAIN nodes) = 2
           /\ DOMAIN cond = { P_agent }
           /\ DOMAIN cond[P_agent].mapping = { "continue", "back" }
           /\ cond[P_agent].mapping.continue = P_tools
           /\ cond[P_agent].mapping.back = Coordinator
           /\ direct = << << P_tools, P_agent >> >>
           /\ \A from \in DOMAIN cond :
                 /\ from \in DOMAIN nodes
                 /\ \A out \in DOMAIN cond[from].mapping :
                       cond[from].mapping[out] \in DOMAIN nodes \cup { Coordinator }
           /\ \A i \in DOMAIN direct :
                 { direct[i][1], direct[i][2] } \subseteq DOMAIN nodes

\* Two plugins are registered; their fragments share no node.
C16_Witness ==
    \E P, Q \in DOMAIN plugin_bundles :
        /\ P # Q
        /\ DOMAIN GetGraphNodes(plugin_bundles[P])
              \cap DOMAIN GetGraphNodes(plugin_bundles[Q]) = {}
        /\ Len(GetGraphEdges(plugin_bundles[P]).direct_edges) = 1

\* Every object of the bundle was created in the pass that is running or ran
\* last.
Fresh(bundle) ==
    /\ bundle.agent = NewObject
    /\ bundle.bound_model = NewObject
    /\ bundle.tools = NewObject

ReloadRunning ==
    op = "reload_plugins" /\ pc # "idle"

\* The names of the contracts of this pass that pass every phase: what the
\* pass makes available, known once discover_plugins() has returned.
FinalAvailable ==
    { contracts[i].name : i \in { j \in 1..Len(contracts) : contracts[j].kind = "ok" } }

\* C18: a read-only query that runs while reload_plugins() is running
\* observes the complete snapshot from before the reload or the complete one
\* after it, never the cleared collections or a partly rebuilt plugin set.
C18_QuerySeesSnapshot ==
    ReloadRunning =>
        \/ Ran(GetAvailablePlugins) = before_reload
        \/ /\ pc \in { "construct", "health" }
           /\ Ran(GetAvailablePlugins) = FinalAvailable

\* C18, as the code has it: while reload_plugins() is running a query
\* observes the plugins this reload has registered so far, from none to all
\* of them; it never observes a bundle from before the reload, and from the
\* end of the construction loop on it observes the complete set.
C18_QuerySeesRebuiltSoFar ==
    op = "reload_plugins" =>
        /\ Ran(GetAvailablePlugins) = Succeeded
        /\ Succeeded \subseteq FinalAvailable
        /\ \A n \in Ran(GetAvailablePlugins) : Fresh(GetPluginBundle(n))
        /\ pc \in { "health", "idle" } => Ran(GetAvailablePlugins) = FinalAvailable

\* A reload has rebuilt one plugin of two: a query now observes neither the
\* plugins from before the reload nor the plugins after it.
C18_Witness ==
    /\ ReloadRunning
    /\ pc = "construct"
    /\ before_reload # {}
    /\ GetAvailablePlugins # << >>
    /\ Ran(GetAvailablePlugins) # before_reload
    /\ Ran(GetAvailablePlugins) # FinalAvailable

\* C19: in every reachable state plugin_bundles and plugin_contracts have the
\* same keys and healthy_plugins is a subset of them; so the lookup
\* plugin_contracts[name] of get_coordinator_tools() finds a contract for
\* every available name, and the mapping perform_health_checks() returns has
\* exactly the names of get_available_plugins() as keys.
C19_SameKeys ==
    /\ DOMAIN plugin_bundles = DOMAIN plugin_contracts
    /\ healthy_plugins \subseteq DOMAIN plugin_bundles
    /\ \A n \in Ran(GetAvailablePlugins) : n \in DOMAIN plugin_contracts
    /\ ~GetCoordinatorTools.raised
    /\ SweepOver => DOMAIN results = Ran(GetAvailablePlugins)

\* A sweep has returned a mapping for two available plugins, one of them
\* not in healthy_plugins.
C19_Witness ==
    /\ SweepOver
    /\ Cardinality(DOMAIN results) = 2
    /\ DOMAIN results = Ran(GetAvailablePlugins)
    /\ healthy_plugins # DOMAIN plugin_bundles
    /\ Len(GetCoordinatorTools.tools) = 3

\* This step is the iteration of the construction loop for a contract whose
\* construction fails.
FailedConstructionStep ==
    /\ pc = "construct"
    /\ processed' = processed + 1
    /\ contracts[processed + 1].kind # "ok"

\* This step is the clearing of the collections by reload_plugins().
ClearingStep ==
    pc = "idle" /\ pc' = "load" /\ op' = "reload_plugins"

\* C20: a failed construction (validation errors or an exception at any
\* phase) leaves plugin_bundles, plugin_contracts and healthy_plugins as they
\* were; so no step but the clearing of a reload removes a name from
\* get_available_plugins(), and a bundle of an earlier pass stays when the
\* same plugin fails in a later one.
C20_FailedConstructionFrame ==
    /\ [][FailedConstructionStep =>
            /\ plugin_bundles' = plugin_bundles
            /\ plugin_contracts' = plugin_contracts
            /\ healthy_plugins' = healthy_plugins]_vars
    /\ [][~ClearingStep =>
            DOMAIN plugin_bundles \subseteq DOMAIN plugin_bundles']_vars

\* A plugin registered by an earlier pass has just failed to construct and
\* still has the bundle of that pass.
C20_Witness ==
    /\ JustConstructed
    /\ contracts[processed].kind # "ok"
    /\ contracts[processed].name \in Ran(GetAvailablePlugins)
    /\ ~Fresh(GetPluginBundle(contracts[processed].name))
    /\ contracts[processed].name \in healthy_plugins

=============================================================================
